---- MODULE Spec2Model ----
(***************************************************************************)
(* Model of resources/lib/database_handler.py: the DB_Handler class, a     *)
(* data-access layer over the SQLite tables Content, Synced and Blocked.   *)
(*                                                                         *)
(* Text values are TLA+ strings; Bytes gives their UTF-8 encoding, which   *)
(* is what SQLite compares (BINARY collation) and what LIKE and substr     *)
(* work on.  All text of the model is ASCII, so bytes and characters       *)
(* coincide.  Directory paths are always text (never None).                *)
(***************************************************************************)
EXTENDS Bags, FiniteSets, Integers, Sequences, TLC

VARIABLES
    content,    \* rows of table Content as seen by the connection
    synced,     \* rows of table Synced as seen by the connection
    blocked,    \* rows of table Blocked (a bag: the schema has no key)
    disk,       \* the committed contents of the three tables
    call,       \* the last method called on the handler, with its arguments
    ret         \* how that call ended: exception raised (or "none") and value

vars == <<content, synced, blocked, disk, call, ret>>

tables == <<content, synced, blocked>>

\* SQL NULL / Python None; a marker outside every text domain of the model
NULL == "<NULL>"

\* Cap on the number of rows of Blocked (the table itself has no limit)
MaxBlockedRows == 6

(***************************************************************************)
(* Text, comparison, LIKE and substr as SQLite computes them               *)
(***************************************************************************)
Bytes(s) ==
    CASE s = "" -> <<>>
      [] s = "Archer" -> <<65, 114, 99, 104, 101, 114>>
      [] s = "The Office" -> <<84, 104, 101, 32, 79, 102, 102, 105, 99, 101>>
      [] s = "The Wire" -> <<84, 104, 101, 32, 87, 105, 114, 101>>
      [] s = "the Beach" -> <<116, 104, 101, 32, 66, 101, 97, 99, 104>>
      [] s = "THE Zoo" -> <<84, 72, 69, 32, 90, 111, 111>>
      [] s = "Then" -> <<84, 104, 101, 110>>
      [] s = "Trailer" -> <<84, 114, 97, 105, 108, 101, 114>>
      [] s = "Extras" -> <<69, 120, 116, 114, 97, 115>>
      [] s = "movie" -> <<109, 111, 118, 105, 101>>
      [] s = "tvshow" -> <<116, 118, 115, 104, 111, 119>>
      [] s = "the %" -> <<116, 104, 101, 32, 37>>

\* ASCII case folding used by LIKE: 'A'..'Z' (65..90) map to 'a'..'z'
Fold(c) == IF c >= 65 /\ c <= 90 THEN c + 32 ELSE c

\* X LIKE pat on byte sequences: '%' (37) matches any run, '_' (95) any one
\* character, every other character matches itself up to ASCII case
RECURSIVE Like(_, _)
Like(pat, str) ==
    IF pat = <<>> THEN str = <<>>
    ELSE IF Head(pat) = 37
         THEN \E k \in 0..Len(str) : Like(Tail(pat), SubSeq(str, k + 1, Len(str)))
         ELSE IF str = <<>> THEN FALSE
              ELSE /\ (Head(pat) = 95 \/ Fold(Head(pat)) = Fold(Head(str)))
                   /\ Like(Tail(pat), Tail(str))

\* substr(X, start): the characters of X from position start (1-based) on
Substr(str, start) == SubSeq(str, start, Len(str))

\* memcmp order of two byte sequences, the shorter first on a common prefix
BytesLE(a, b) ==
    LET n == IF Len(a) < Len(b) THEN Len(a) ELSE Len(b)
        diff == {i \in 1..n : a[i] # b[i]}
    IN  IF diff = {} THEN Len(a) <= Len(b)
        ELSE LET i == CHOOSE j \in diff : \A k \in diff : j <= k
             IN  a[i] < b[i]

\* One ORDER BY term as SQLite ranks it: NULL sorts before every text value,
\* text values compare by their bytes
NullTerm == <<0, <<>>>>

Term(bytes) == <<1, bytes>>

TermLE(a, b) == IF a[1] # b[1] THEN a[1] < b[1] ELSE BytesLE(a[2], b[2])

\* The value of the ORDER BY term
\*   CASE WHEN X LIKE 'the %' THEN substr(X,5) ELSE X END
\* NULL LIKE ... is NULL, so a NULL column takes the ELSE branch and stays NULL
\* (faulty variant: a LIKE that compares case-sensitively)
SortKeyCaseSensitive(x) ==
    IF x = NULL THEN <<NullTerm>>
    ELSE IF Len(Bytes(x)) >= 4 /\ SubSeq(Bytes(x), 1, 4) = <<84, 104, 101, 32>>
         THEN <<Term(Substr(Bytes(x), 5))>> ELSE <<Term(Bytes(x))>>

\* the ORDER BY term as the queries write it
SortKey(x) ==
    IF x = NULL THEN <<NullTerm>>
    ELSE IF Like(Bytes("the %"), Bytes(x))
         THEN <<Term(Substr(Bytes(x), 5))>> ELSE <<Term(Bytes(x))>>

\* ascending order on a list of ORDER BY terms, the first term deciding first
RECURSIVE KeyLE(_, _)
KeyLE(a, b) ==
    IF a = <<>> THEN TRUE
    ELSE IF Head(a) = Head(b) THEN KeyLE(Tail(a), Tail(b))
    ELSE TermLE(Head(a), Head(b))

\* Every order in which a query can return the items of S, a set of pairs
\* <<ORDER BY terms, item>>: SQLite leaves the order of rows with equal keys
\* unspecified
RECURSIVE OrderBy(_)
OrderBy(S) ==
    IF S = {} THEN {<<>>}
    ELSE UNION { { <<x[2]>> \o t : t \in OrderBy(S \ {x}) } :
                 x \in {y \in S : \A z \in S : KeyLE(y[1], z[1])} }

(***************************************************************************)
(* Rows, statements and results                                            *)
(***************************************************************************)
ContentRow(path, title, mediatype, status, show_title) ==
    [Directory |-> path, Title |-> title, Mediatype |-> mediatype,
     Status |-> status, Show_Title |-> show_title]

SyncedRow(path, label, mediatype) ==
    [Directory |-> path, Label |-> label, Type |-> mediatype]

BlockedRow(value, mediatype) == [Value |-> value, Type |-> mediatype]

\* fetchone() when the query has no row: None
NoRow == [None |-> TRUE]

\* Python truth of an optional text argument: None and '' are false
Truthy(x) == x # NULL /\ x # ""

\* (faulty variant: the conflicting row is replaced)
InsertOrIgnoreOverwrites(T, row) ==
    {r \in T : r.Directory # row.Directory} \cup {row}

\* INSERT OR IGNORE into a table whose PRIMARY KEY is Directory
InsertOrIgnore(T, row) ==
    IF \E r \in T : r.Directory = row.Directory THEN T ELSE T \cup {row}

\* (faulty variant: the conflicting row is kept)
InsertOrReplaceKeepsOld(T, row) ==
    IF \E r \in T : r.Directory = row.Directory THEN T ELSE T \cup {row}

\* INSERT OR REPLACE into a table whose PRIMARY KEY is Directory
InsertOrReplace(T, row) ==
    {r \in T : r.Directory # row.Directory} \cup {row}

\* (faulty variant: the commit is missing)
CommitLost == disk' = disk

\* self.db.commit(): what the connection sees becomes the persisted contents
Commit ==
    disk' = [Content |-> content', Synced |-> synced', Blocked |-> blocked']

\* the call returns val / the call raises exception e
Returns(op, args, val) ==
    /\ call' = [op |-> op, args |-> args]
    /\ ret' = [err |-> "none", val |-> val]

Raises(op, args, e) ==
    /\ call' = [op |-> op, args |-> args]
    /\ ret' = [err |-> e, val |-> NULL]

\* content_item_from_db: the entity of a fetched row, or the exception raised.
\* item[2] on None raises TypeError.  A MovieItem has no show title.
content_item_from_db(item) ==
    IF item = NoRow THEN [err |-> "TypeError", val |-> NULL]
    ELSE IF item.Mediatype = "movie"
         THEN [err |-> "none",
               val |-> [cls |-> "MovieItem", path |-> item.Directory,
                        title |-> item.Title, mediatype |-> "movie",
                        show_title |-> NULL]]
    ELSE IF item.Mediatype = "tvshow"
         THEN [err |-> "none",
               val |-> [cls |-> "EpisodeItem", path |-> item.Directory,
                        title |-> item.Title, mediatype |-> "tvshow",
                        show_title |-> item.Show_Title]]
    ELSE [err |-> "ValueError", val |-> NULL]

synced_item_dict(item) ==
    [dir |-> item.Directory, label |-> item.Label, type |-> item.Type]

blocked_item_dict(item) == [value |-> item.Value, type |-> item.Type]

\* the list comprehension [self.content_item_from_db(x) for x in rows]:
\* the first row that fails to convert raises out of the method
ReturnItems(op, args, rows) ==
    LET conv == [i \in 1..Len(rows) |-> content_item_from_db(rows[i])]
        bad == {i \in 1..Len(rows) : conv[i].err # "none"}
    IN  IF bad # {}
        THEN Raises(op, args, conv[CHOOSE i \in bad : \A j \in bad : i <= j].err)
        ELSE Returns(op, args, [i \in 1..Len(rows) |-> conv[i].val])

(***************************************************************************)
(* Construction                                                            *)
(***************************************************************************)
\* __init__ on a new database file: the three tables are created empty and
\* the creation is committed
Init ==
    /\ content = {}
    /\ synced = {}
    /\ blocked = EmptyBag
    /\ disk = [Content |-> {}, Synced |-> {}, Blocked |-> EmptyBag]
    /\ call = [op |-> "__init__", args |-> <<>>]
    /\ ret = [err |-> "none", val |-> NULL]

(***************************************************************************)
(* Operations on Content                                                   *)
(***************************************************************************)
get_content_items(status, mediatype) ==
    LET match == {r \in content :
                    /\ r.Status = status
                    /\ (Truthy(mediatype) => r.Mediatype = mediatype)}
    IN  /\ \E rows \in OrderBy({<<SortKey(r.Title), r>> : r \in match}) :
              ReturnItems("get_content_items", <<status, mediatype>>, rows)
        /\ UNCHANGED <<content, synced, blocked, disk>>

\* (faulty variant: the None filter of the comprehension is missing)
get_all_shows_KeepsNull(status) ==
    LET distinct == {r.Show_Title : r \in {q \in content : q.Status = status}}
    IN  /\ \E rows \in OrderBy({<<SortKey(x), x>> : x \in distinct}) :
              Returns("get_all_shows", <<status>>, rows)
        /\ UNCHANGED <<content, synced, blocked, disk>>

get_all_shows(status) ==
    LET distinct == {r.Show_Title : r \in {q \in content : q.Status = status}}
    IN  /\ \E rows \in OrderBy({<<SortKey(x), x>> : x \in distinct}) :
              Returns("get_all_shows", <<status>>,
                      SelectSeq(rows, LAMBDA x : x # NULL))
        /\ UNCHANGED <<content, synced, blocked, disk>>

get_show_episodes(status, show_title) ==
    LET match == {r \in content :
                    /\ r.Status = status
                    /\ show_title # NULL
                    /\ r.Show_Title = show_title}
    IN  /\ \E rows \in OrderBy({<<SortKey(r.Title), r>> : r \in match}) :
              ReturnItems("get_show_episodes", <<status, show_title>>, rows)
        /\ UNCHANGED <<content, synced, blocked, disk>>

load_item(path) ==
    LET match == {r \in content : r.Directory = path}
    IN  /\ \E item \in (IF match = {} THEN {NoRow} ELSE match) :
              LET conv == content_item_from_db(item)
              IN  IF conv.err # "none"
                  THEN Raises("load_item", <<path>>, conv.err)
                  ELSE Returns("load_item", <<path>>, conv.val)
        /\ UNCHANGED <<content, synced, blocked, disk>>

path_exists(path, status) ==
    LET match == {r \in content :
                    /\ r.Directory = path
                    /\ (Truthy(status) => r.Status = status)}
    IN  /\ Returns("path_exists", <<path, status>>, match # {})
        /\ UNCHANGED <<content, synced, blocked, disk>>

\* (faulty variant: a row is inserted whatever the mediatype)
add_content_item_AnyKind(path, title, mediatype, show_title) ==
    /\ content' =
         IF mediatype = "movie"
         THEN InsertOrIgnore(content,
                  ContentRow(path, title, mediatype, "staged", NULL))
         ELSE InsertOrIgnore(content,
                  ContentRow(path, title, mediatype, "staged", show_title))
    /\ UNCHANGED <<synced, blocked>>
    /\ Commit
    /\ Returns("add_content_item", <<path, title, mediatype, show_title>>, NULL)

\* (faulty variant: the movie branch stores show_title)
add_content_item_MovieShowTitle(path, title, mediatype, show_title) ==
    /\ content' =
         IF mediatype \in {"movie", "tvshow"}
         THEN InsertOrIgnore(content,
                  ContentRow(path, title, mediatype, "staged", show_title))
         ELSE content
    /\ UNCHANGED <<synced, blocked>>
    /\ Commit
    /\ Returns("add_content_item", <<path, title, mediatype, show_title>>, NULL)

add_content_item(path, title, mediatype, show_title) ==
    /\ content' =
         IF mediatype = "movie"
         THEN InsertOrIgnore(content,
                  ContentRow(path, title, mediatype, "staged", NULL))
         ELSE IF mediatype = "tvshow"
         THEN InsertOrIgnore(content,
                  ContentRow(path, title, mediatype, "staged", show_title))
         ELSE content
    /\ UNCHANGED <<synced, blocked>>
    /\ Commit
    /\ Returns("add_content_item", <<path, title, mediatype, show_title>>, NULL)

\* (faulty variant: an absent path gets a new row)
update_content_status_Upsert(path, status) ==
    /\ content' = IF \E r \in content : r.Directory = path
                  THEN {IF r.Directory = path THEN [r EXCEPT !.Status = status]
                        ELSE r : r \in content}
                  ELSE content \cup {ContentRow(path, NULL, NULL, status, NULL)}
    /\ UNCHANGED <<synced, blocked>>
    /\ Commit
    /\ Returns("update_content_status", <<path, status>>, NULL)

update_content_status(path, status) ==
    /\ content' = {IF r.Directory = path THEN [r EXCEPT !.Status = status] ELSE r :
                     r \in content}
    /\ UNCHANGED <<synced, blocked>>
    /\ Commit
    /\ Returns("update_content_status", <<path, status>>, NULL)

update_content_title(path, title) ==
    /\ content' = {IF r.Directory = path THEN [r EXCEPT !.Title = title] ELSE r :
                     r \in content}
    /\ UNCHANGED <<synced, blocked>>
    /\ Commit
    /\ Returns("update_content_title", <<path, title>>, NULL)

remove_content_item(path) ==
    /\ content' = {r \in content : r.Directory # path}
    /\ UNCHANGED <<synced, blocked>>
    /\ Commit
    /\ Returns("remove_content_item", <<path>>, NULL)

remove_all_content_items(status, mediatype) ==
    /\ content' = {r \in content :
                     ~(r.Status = status /\ r.Mediatype = mediatype)}
    /\ UNCHANGED <<synced, blocked>>
    /\ Commit
    /\ Returns("remove_all_content_items", <<status, mediatype>>, NULL)

remove_all_show_episodes(status, show_title) ==
    /\ content' = {r \in content :
                     ~(r.Status = status /\ show_title # NULL
                       /\ r.Show_Title = show_title)}
    /\ UNCHANGED <<synced, blocked>>
    /\ Commit
    /\ Returns("remove_all_show_episodes", <<status, show_title>>, NULL)

(***************************************************************************)
(* Operations on Synced                                                    *)
(***************************************************************************)
get_synced_dirs ==
    /\ \E rows \in OrderBy({<<SortKey(r.Label), r>> : r \in synced}) :
          Returns("get_synced_dirs", <<>>,
                  [i \in 1..Len(rows) |-> synced_item_dict(rows[i])])
    /\ UNCHANGED <<content, synced, blocked, disk>>

add_synced_dir(label, path, mediatype) ==
    /\ synced' = InsertOrReplace(synced, SyncedRow(path, label, mediatype))
    /\ UNCHANGED <<content, blocked>>
    /\ Commit
    /\ Returns("add_synced_dir", <<label, path, mediatype>>, NULL)

remove_synced_dir(path) ==
    /\ synced' = {r \in synced : r.Directory # path}
    /\ UNCHANGED <<content, blocked>>
    /\ Commit
    /\ Returns("remove_synced_dir", <<path>>, NULL)

remove_all_synced_dirs ==
    /\ synced' = {}
    /\ UNCHANGED <<content, blocked>>
    /\ Commit
    /\ Returns("remove_all_synced_dirs", <<>>, NULL)

(***************************************************************************)
(* Operations on Blocked                                                   *)
(***************************************************************************)
\* the rows of SELECT ... FROM Blocked WHERE Value=? AND Type=?; a comparison
\* with NULL is never true
BlockedMatch(value, mediatype) ==
    {r \in BagToSet(blocked) :
       value # NULL /\ mediatype # NULL /\ r.Value = value /\ r.Type = mediatype}

\* (faulty variant: the existence check never finds the pair)
CheckBlockedNever(value, mediatype) == FALSE

\* bool(fetchone()): a fetched row is a non-empty tuple, hence true
CheckBlocked(value, mediatype) == BlockedMatch(value, mediatype) # {}

get_blocked_items ==
    /\ \E rows \in OrderBy(UNION {
              { <<<<Term(Bytes(r.Value)), Term(Bytes(r.Type))>>, <<r, n>>>> :
                  n \in 1..CopiesIn(r, blocked) } : r \in BagToSet(blocked)}) :
          Returns("get_blocked_items", <<>>,
                  [i \in 1..Len(rows) |-> blocked_item_dict(rows[i][1])])
    /\ UNCHANGED <<content, synced, blocked, disk>>

\* Value and Type are NOT NULL: inserting None raises IntegrityError out of
\* execute, before the commit is reached
add_blocked_item(value, mediatype) ==
    IF ~CheckBlocked(value, mediatype)
    THEN IF value = NULL \/ mediatype = NULL
         THEN /\ UNCHANGED <<content, synced, blocked, disk>>
              /\ Raises("add_blocked_item", <<value, mediatype>>, "IntegrityError")
         ELSE /\ BagCardinality(blocked) < MaxBlockedRows
              /\ blocked' = blocked (+) SetToBag({BlockedRow(value, mediatype)})
              /\ UNCHANGED <<content, synced>>
              /\ Commit
              /\ Returns("add_blocked_item", <<value, mediatype>>, NULL)
    ELSE /\ UNCHANGED <<content, synced, blocked, disk>>
         /\ Returns("add_blocked_item", <<value, mediatype>>, NULL)

check_blocked(value, mediatype) ==
    /\ Returns("check_blocked", <<value, mediatype>>, CheckBlocked(value, mediatype))
    /\ UNCHANGED <<content, synced, blocked, disk>>

remove_blocked(value, mediatype) ==
    /\ blocked' = [r \in BagToSet(blocked) \ BlockedMatch(value, mediatype) |->
                     blocked[r]]
    /\ UNCHANGED <<content, synced>>
    /\ Commit
    /\ Returns("remove_blocked", <<value, mediatype>>, NULL)

(***************************************************************************)
(* Argument domains and specifications                                     *)
(***************************************************************************)
Paths == {"/a", "/b"}
Titles == {"Archer", "The Wire"}
Kinds == {"movie", "tvshow"}
Mediatypes == Kinds \cup {"music"}
Statuses == {"staged", "synced"}
ShowTitles == {"The Office", "the Beach"}
BlockedValues == {"", "Trailer", "Extras"}

ContentRead(P, T, S, ST) ==
    \/ \E s \in S, m \in Kinds \cup {NULL} : get_content_items(s, m)
    \/ \E s \in S : get_all_shows(s)
    \/ \E s \in S, st \in ST : get_show_episodes(s, st)
    \/ \E p \in P : load_item(p)
    \/ \E p \in P, s \in S \cup {NULL} : path_exists(p, s)

ContentWrite(P, T, S, ST) ==
    \/ \E p \in P, t \in T, m \in Mediatypes, st \in ST \cup {NULL} :
          add_content_item(p, t, m, st)
    \/ \E p \in P, s \in S : update_content_status(p, s)
    \/ \E p \in P, t \in T : update_content_title(p, t)
    \/ \E p \in P : remove_content_item(p)
    \/ \E s \in S, m \in Mediatypes : remove_all_content_items(s, m)
    \/ \E s \in S, st \in ST : remove_all_show_episodes(s, st)

SyncedRead == get_synced_dirs

SyncedWrite(P, L, K) ==
    \/ \E l \in L, p \in P, m \in K : add_synced_dir(l, p, m)
    \/ \E p \in P : remove_synced_dir(p)
    \/ remove_all_synced_dirs

BlockedRead(V, K) ==
    \/ get_blocked_items
    \/ \E v \in V, m \in K : check_blocked(v, m)

BlockedWrite(V, K) ==
    \/ \E v \in V \cup {NULL}, m \in K : add_blocked_item(v, m)
    \/ \E v \in V, m \in K : remove_blocked(v, m)

\* The Content table alone, every operation on it
NextContent ==
    \/ ContentRead(Paths, Titles, Statuses, ShowTitles)
    \/ ContentWrite(Paths, Titles, Statuses, ShowTitles)

SpecContent == Init /\ [][NextContent]_vars

\* The Synced table alone
NextSynced ==
    \/ SyncedRead
    \/ SyncedWrite(Paths \cup {"/c"}, {"Archer", "the Beach"}, Kinds)

SpecSynced == Init /\ [][NextSynced]_vars

\* The Blocked table alone
NextBlocked ==
    \/ BlockedRead(BlockedValues, Kinds)
    \/ BlockedWrite(BlockedValues, Kinds)

SpecBlocked == Init /\ [][NextBlocked]_vars

\* The whole handler: every write on the three tables
Next ==
    \/ ContentWrite(Paths, Titles, Statuses, {"The Office"})
    \/ SyncedWrite({"/a"}, {"Archer", "the Beach"}, {"movie"})
    \/ BlockedWrite({"Trailer"}, Kinds)

Spec == Init /\ [][Next]_vars

(***************************************************************************)
(* The listing queries on a database file that already holds rows          *)
(***************************************************************************)
SortPaths == {"/a", "/b", "/c"}
SortTitles == {"Archer", "The Office", "The Wire", "the Beach"}
SortShowTitles == {"The Wire", "THE Zoo"}
SortLabels == {"Archer", "the Beach", "Then", "THE Zoo"}

\* what add_content_item can have stored at one path, or nothing (NoRow)
StagedAt(p) ==
    {ContentRow(p, t, "movie", "staged", NULL) : t \in SortTitles}
    \cup {ContentRow(p, t, "tvshow", "staged", st) :
            t \in SortTitles, st \in SortShowTitles}
    \cup {NoRow}

SyncedAt(p) == {SyncedRow(p, l, "movie") : l \in SortLabels} \cup {NoRow}

\* __init__ on the file an earlier session left: CREATE TABLE IF NOT EXISTS
\* keeps the rows, which are committed.  Each listing query reads one table,
\* so the files drawn hold rows in Content or in Synced.
InitSort ==
    /\ \/ /\ \E a \in StagedAt("/a"), b \in StagedAt("/b"), c \in StagedAt("/c") :
                content = {a, b, c} \ {NoRow}
          /\ synced = {}
       \/ /\ content = {}
          /\ \E a \in SyncedAt("/a"), b \in SyncedAt("/b"), c \in SyncedAt("/c") :
                synced = {a, b, c} \ {NoRow}
    /\ blocked = EmptyBag
    /\ disk = [Content |-> content, Synced |-> synced, Blocked |-> blocked]
    /\ call = [op |-> "__init__", args |-> <<>>]
    /\ ret = [err |-> "none", val |-> NULL]

NextSort ==
    \/ \E m \in Kinds \cup {NULL} : get_content_items("staged", m)
    \/ get_all_shows("staged")
    \/ \E st \in SortShowTitles : get_show_episodes("staged", st)
    \/ get_synced_dirs

SpecSort == InitSort /\ [][NextSort]_vars

(***************************************************************************)
(* Properties                                                              *)
(***************************************************************************)
Persisted == [Content |-> content, Synced |-> synced, Blocked |-> blocked]

\* C1: add_content_item never overwrites: a row that exists for the path of
\* the call is still there afterwards, with the same title, media kind, status
\* and show title, and it is the only row for that path.
C1_AddNeverOverwrites ==
    [][call'.op = "add_content_item" =>
         \A r \in content :
            r.Directory = call'.args[1] =>
               /\ r \in content'
               /\ {q \in content' : q.Directory = r.Directory} = {r}]_vars

\* an add_content_item on a path whose row differs from the arguments in
\* title, media kind and status
C1_Witness ==
    /\ call.op = "add_content_item"
    /\ \E r \in content :
          /\ r.Directory = call.args[1]
          /\ r.Title # call.args[2]
          /\ r.Mediatype # call.args[3]
          /\ call.args[3] \in Kinds
          /\ r.Status = "synced"

\* C2: load_item on a path with no Content row returns a not-found result and
\* raises no error.
C2_LoadAbsentReturnsNotFound ==
    (call.op = "load_item" /\ \A r \in content : r.Directory # call.args[1])
        => ret.err = "none"

\* C3: the Blocked table holds at most one row for each (value, kind) pair;
\* after add_blocked_item(v, k) returns there is exactly one row for (v, k);
\* check_blocked(v, k) is true exactly when (v, k) has a row.
C3_BlockedPairsUnique ==
    /\ \A r \in BagToSet(blocked) : CopiesIn(r, blocked) = 1
    /\ (call.op = "add_blocked_item" /\ ret.err = "none") =>
          CopiesIn(BlockedRow(call.args[1], call.args[2]), blocked) = 1
    /\ call.op = "check_blocked" =>
          ret.val = (CopiesIn(BlockedRow(call.args[1], call.args[2]), blocked) >= 1)

\* check_blocked answers false for a value that is blocked under another kind
C3_Witness ==
    /\ call.op = "check_blocked"
    /\ ret.val = FALSE
    /\ \E r \in BagToSet(blocked) :
          r.Value = call.args[1] /\ r.Type # call.args[2]

\* C4 as stated: every Content row has a non-null show title if and only if
\* its media kind is tvshow.
C4_ShowTitleIffTvshow ==
    \A r \in content : (r.Show_Title # NULL) <=> (r.Mediatype = "tvshow")

\* C4 as amended: every Content row with a non-null show title has media kind
\* tvshow, so a movie row always has a null show title (a tvshow row may have
\* a null show title too).
C4_ShowTitleOnlyOnTvshow ==
    \A r \in content : (r.Show_Title # NULL) => (r.Mediatype = "tvshow")

\* a movie was added with a show_title argument and stored without it
C4_Witness ==
    /\ call.op = "add_content_item"
    /\ call.args[3] = "movie"
    /\ call.args[4] # NULL
    /\ ContentRow(call.args[1], call.args[2], "movie", "staged", NULL) \in content

C5_Listings ==
    {"get_content_items", "get_show_episodes", "get_all_shows", "get_synced_dirs"}

\* the texts a listing was ordered on, in the order returned
C5_Listed ==
    IF call.op \in {"get_content_items", "get_show_episodes"}
    THEN [i \in 1..Len(ret.val) |-> ret.val[i].title]
    ELSE IF call.op = "get_all_shows" THEN ret.val
    ELSE IF call.op = "get_synced_dirs"
    THEN [i \in 1..Len(ret.val) |-> ret.val[i].label]
    ELSE <<>>

\* <<path, text>> of the rows the listing had to return
C5_Selected ==
    IF call.op = "get_content_items"
    THEN {<<r.Directory, r.Title>> :
            r \in {q \in content : /\ q.Status = call.args[1]
                                   /\ call.args[2] \in {NULL, q.Mediatype}}}
    ELSE IF call.op = "get_show_episodes"
    THEN {<<r.Directory, r.Title>> :
            r \in {q \in content : /\ q.Status = call.args[1]
                                   /\ q.Show_Title = call.args[2]}}
    ELSE IF call.op = "get_all_shows"
    THEN {<<"", r.Show_Title>> :
            r \in {q \in content : /\ q.Status = call.args[1]
                                   /\ q.Show_Title # NULL}}
    ELSE {<<r.Directory, r.Label>> : r \in synced}

C5_Returned ==
    IF call.op \in {"get_content_items", "get_show_episodes"}
    THEN {<<ret.val[i].path, ret.val[i].title>> : i \in 1..Len(ret.val)}
    ELSE IF call.op = "get_all_shows"
    THEN {<<"", ret.val[i]>> : i \in 1..Len(ret.val)}
    ELSE {<<ret.val[i].dir, ret.val[i].label>> : i \in 1..Len(ret.val)}

\* sort key that drops only the literal prefix "The "
C5_KeyLiteral(x) ==
    LET b == Bytes(x)
    IN  IF Len(b) >= 4 /\ b[1] = 84 /\ b[2] = 104 /\ b[3] = 101 /\ b[4] = 32
        THEN SubSeq(b, 5, Len(b)) ELSE b

\* sort key that drops the prefix "the " written in any letter case
C5_KeyAnyCase(x) ==
    LET b == Bytes(x)
    IN  IF /\ Len(b) >= 4
           /\ b[1] \in {84, 116} /\ b[2] \in {72, 104} /\ b[3] \in {69, 101}
           /\ b[4] = 32
        THEN SubSeq(b, 5, Len(b)) ELSE b

\* C5 as stated: every listing is in ascending byte order of the key that
\* drops a leading "The " only when it is written exactly so.
C5_SortedByLiteralThe ==
    call.op \in C5_Listings =>
        \A i \in 1..(Len(C5_Listed) - 1) :
            BytesLE(C5_KeyLiteral(C5_Listed[i]), C5_KeyLiteral(C5_Listed[i + 1]))

\* C5 as amended: every listing returns the selected rows with their texts
\* unchanged, in ascending byte order of the key that drops a leading "the "
\* written in any ASCII letter case ("The ", "the ", "THE ", ...).
C5_SortedByAnyCaseThe ==
    call.op \in C5_Listings =>
        /\ C5_Returned = C5_Selected
        /\ Len(ret.val) = Cardinality(C5_Selected)
        /\ \A i \in 1..(Len(C5_Listed) - 1) :
              BytesLE(C5_KeyAnyCase(C5_Listed[i]), C5_KeyAnyCase(C5_Listed[i + 1]))

\* a listing of three titles in which the lower-case "the Beach" is ordered
\* on "Beach"
C5_Witness ==
    /\ call.op = "get_content_items"
    /\ C5_Listed = <<"Archer", "the Beach", "The Office">>

\* C6: get_all_shows(s) returns exactly the distinct non-null show titles of
\* the tvshow entries with status s: no null, no duplicate, nothing from a
\* movie entry.
C6_AllShowsExact ==
    call.op = "get_all_shows" =>
        LET want == {r.Show_Title :
                       r \in {q \in content : /\ q.Mediatype = "tvshow"
                                              /\ q.Status = call.args[1]
                                              /\ q.Show_Title # NULL}}
        IN  /\ {ret.val[i] : i \in 1..Len(ret.val)} = want
            /\ Len(ret.val) = Cardinality(want)
            /\ \A i \in 1..Len(ret.val) : ret.val[i] # NULL

\* get_all_shows on a status under which a movie and a tvshow are stored
C6_Witness ==
    /\ call.op = "get_all_shows"
    /\ Len(ret.val) = 1
    /\ \E r \in content : r.Mediatype = "movie" /\ r.Status = call.args[1]

\* the statement of call c matches no row of the tables
C7_MatchesNothing(c) ==
    \/ /\ c.op \in {"update_content_status", "update_content_title",
                    "remove_content_item"}
       /\ \A r \in content : r.Directory # c.args[1]
    \/ /\ c.op = "remove_all_content_items"
       /\ \A r \in content : ~(r.Status = c.args[1] /\ r.Mediatype = c.args[2])
    \/ /\ c.op = "remove_all_show_episodes"
       /\ \A r \in content : ~(r.Status = c.args[1] /\ r.Show_Title = c.args[2])
    \/ /\ c.op = "remove_synced_dir"
       /\ \A r \in synced : r.Directory # c.args[1]
    \/ /\ c.op = "remove_blocked"
       /\ \A r \in BagToSet(blocked) :
             ~(r.Value = c.args[1] /\ r.Type = c.args[2])

\* C7: an update or delete that matches no row raises no error and leaves
\* Content, Synced and Blocked as they were; no row is created.
C7_ZeroRowMutationIsNoOp ==
    [][C7_MatchesNothing(call') =>
         /\ ret'.err = "none"
         /\ content' = content
         /\ synced' = synced
         /\ blocked' = blocked
         /\ disk' = disk]_vars

\* update_content_status on an absent path while all three tables hold rows
C7_Witness ==
    /\ call.op = "update_content_status"
    /\ \A r \in content : r.Directory # call.args[1]
    /\ content # {}
    /\ synced # {}
    /\ blocked # EmptyBag

\* C8: after add_synced_dir(label, path, mediatype) Synced holds exactly one
\* entry for path, with the label and kind of the call; entries of other
\* directories are unchanged; directories in Synced are always unique.
C8_AddSyncedDirUpserts ==
    [][/\ call'.op = "add_synced_dir" =>
            /\ {r \in synced' : r.Directory = call'.args[2]} =
                  {SyncedRow(call'.args[2], call'.args[1], call'.args[3])}
            /\ {r \in synced' : r.Directory # call'.args[2]} =
                  {r \in synced : r.Directory # call'.args[2]}
       /\ \A r, q \in synced' : r.Directory = q.Directory => r = q]_vars

\* an add_synced_dir whose entry stands beside the entries of other paths
C8_Witness ==
    /\ call.op = "add_synced_dir"
    /\ SyncedRow(call.args[2], call.args[1], call.args[3]) \in synced
    /\ Cardinality(synced) = 3

C9_Writes ==
    {"add_content_item", "update_content_status", "update_content_title",
     "remove_content_item", "remove_all_content_items",
     "remove_all_show_episodes", "add_synced_dir", "remove_synced_dir",
     "remove_all_synced_dirs", "add_blocked_item", "remove_blocked"}

\* C9: when a write operation has returned, the persisted contents of the
\* three tables equal the contents the connection sees.
C9_WritesAreCommitted ==
    (call.op \in C9_Writes /\ ret.err = "none") => disk = Persisted

\* add_blocked_item has returned on a pair that is blocked, with rows in the
\* other tables
C9_Witness ==
    /\ call.op = "add_blocked_item"
    /\ ret.err = "none"
    /\ CopiesIn(BlockedRow(call.args[1], call.args[2]), blocked) = 1
    /\ content # {}
    /\ synced # {}
    /\ disk = Persisted

\* C10: every Content row has media kind movie or tvshow, and no mapping of
\* rows to entities raises the 'Unrecognized Mediatype' ValueError.
C10_OnlyKnownMediatypes ==
    /\ \A r \in content : r.Mediatype \in {"movie", "tvshow"}
    /\ ret.err # "ValueError"

\* add_content_item was called with another mediatype on a free path
C10_Witness ==
    /\ call.op = "add_content_item"
    /\ call.args[3] = "music"
    /\ \A r \in content : r.Directory # call.args[1]
    /\ content # {}

====
